---- MODULE Spec2Model ----
(***************************************************************************)
(* db-reader: a PostgreSQL schema-introspection tool.                      *)
(*                                                                         *)
(* The module models                                                       *)
(*   - PostgresConnector (postgresql/index.go): Connect, Disconnect,       *)
(*     GetTables, GetTableStructure over a database handle;                *)
(*   - the package functions GetTableList / GetTableStructure and the two  *)
(*     formatDataType variants;                                            *)
(*   - the three catalog queries, evaluated over a relational model of the *)
(*     PostgreSQL system catalogs.                                         *)
(***************************************************************************)
EXTENDS Integers, Sequences, FiniteSets, TLC

VARIABLES
    db,         \* PostgresConnector.db: 0 is nil, otherwise a handle id
    handles,    \* every *sql.DB sql.Open returned, by id
    catalog,    \* the database's system catalogs
    last,       \* the last call on the connector and what it returned
    pgType,     \* formatDataType: the string first passed in
    variant,    \* formatDataType: "connector" or "package"
    formatted,  \* formatDataType: the results of the successive applications
    indexRows,  \* index folding: the rows the index cursor yields
    indexes,    \* index folding: table.Indexes after the fold
    folded,     \* index folding: whether the fold has run
    cli,        \* the command-line program: its position, input and output
    race        \* a GetTableStructure in flight, query by query

vars == <<db, handles, catalog, last, pgType, variant, formatted, indexRows, indexes,
          folded, cli, race>>

connVars == <<db, handles, catalog, last>>
fmtVars  == <<pgType, variant, formatted>>
foldVars == <<indexRows, indexes, folded>>
cliVars  == <<cli>>
raceVars == <<race>>

(***************************************************************************)
(* Bounds of the model.                                                    *)
(***************************************************************************)
MaxHandles == 3     \* handles opened in one behaviour
MaxFrags   == 3     \* fragments concatenated into a formatDataType input
MaxApply   == 2     \* successive applications of formatDataType
MaxRows    == 3     \* rows of an index cursor

(***************************************************************************)
(* Strings.  TLC gives Len, SubSeq and \o on strings.                      *)
(***************************************************************************)
Max(a, b) == IF a >= b THEN a ELSE b

HasPrefixAt(s, i, old) ==
    /\ i + Len(old) - 1 <= Len(s)
    /\ SubSeq(s, i, i + Len(old) - 1) = old

\* strings.Replace(s, old, new, -1) for a non-empty old: the non-overlapping
\* occurrences of old, found left to right, are replaced by new.
RECURSIVE ReplaceFrom(_, _, _, _)
ReplaceFrom(s, old, new, i) ==
    IF i > Len(s) THEN ""
    ELSE IF HasPrefixAt(s, i, old)
         THEN new \o ReplaceFrom(s, old, new, i + Len(old))
         ELSE SubSeq(s, i, i) \o ReplaceFrom(s, old, new, i + 1)

\* The argument is evaluated once, then scanned.
Replace(s, old, new) ==
    CHOOSE r \in {ReplaceFrom(x, old, new, 1) : x \in {s}} : TRUE

Contains(s, sub) == \E i \in 1..Max(Len(s), 1) : HasPrefixAt(s, i, sub)

(***************************************************************************)
(* formatDataType, connector variant (postgresql/index.go) and package     *)
(* variant (the package file with GetTableList).                           *)
(***************************************************************************)
\* The "character" rule written with its arguments exchanged.
formatDataTypeSwappedArgs(t) ==
    LET s1 == Replace(t, "character varying", "varchar")
        s2 == Replace(s1, "char", "character")
    IN  Replace(s2, "double precision", "double")

\* The narrow "character" rule applied before "character varying".
formatDataTypeNarrowFirst(t) ==
    LET s1 == Replace(t, "character", "char")
        s2 == Replace(s1, "character varying", "varchar")
    IN  Replace(s2, "double precision", "double")

formatDataType(t) ==
    LET s1 == Replace(t, "character varying", "varchar")
        s2 == Replace(s1, "character", "char")
    IN  Replace(s2, "double precision", "double")

formatDataTypePkg(t) ==
    LET s1 == Replace(t, "character varying", "varchar")
        s2 == Replace(s1, "character", "char")
        s3 == Replace(s2, "double precision", "double")
        s4 == Replace(s3, "timestamp without time zone", "timestamp")
    IN  Replace(s4, "timestamp with time zone", "timestampz")

FormatBy(v, t) == IF v = "connector" THEN formatDataType(t) ELSE formatDataTypePkg(t)

Variants == {"connector", "package"}

\* Length and precision suffixes as pg_catalog.format_type renders them.
Suffixes == {"", "(1)", "(50)", "(255)", "(50)[]"}

\* Type names as pg_catalog.format_type renders them for built-in types.
CatalogTypeNames ==
    {"character varying" \o x : x \in Suffixes}
        \cup {"character" \o x : x \in Suffixes}
        \cup {"double precision", "double precision[]", "integer", "text",
              "numeric(10,2)", "boolean", "bpchar",
              "timestamp without time zone", "timestamp with time zone",
              "timestamp(3) without time zone", "timestamp(3) with time zone",
              "timestamp without time zone[]", "time with time zone"}

\* Arbitrary inputs: concatenations of up to MaxFrags fragments.
Fragments == {"char", "character", "acter", " varying", "double", " precision",
              "timestamp with", "out time zone", " time zone"}

RECURSIVE Concat(_)
Concat(fs) == IF fs = <<>> THEN "" ELSE Head(fs) \o Concat(Tail(fs))

FragmentInputs ==
    UNION {{Concat(fs) : fs \in [1..n -> Fragments]} : n \in 0..MaxFrags}

FormatInputs == CatalogTypeNames \cup FragmentInputs

(***************************************************************************)
(* Ordering of names: ORDER BY on a name column, byte-wise comparison.     *)
(***************************************************************************)
Alphabet == "_abcdefghijklmnopqrstuvwxyz"

CharRank(c) == CHOOSE i \in 1..Len(Alphabet) : SubSeq(Alphabet, i, i) = c

RECURSIVE StrLessFrom(_, _, _)
StrLessFrom(a, b, i) ==
    IF i > Len(b) THEN FALSE
    ELSE IF i > Len(a) THEN TRUE
    ELSE LET ca == CharRank(SubSeq(a, i, i))
             cb == CharRank(SubSeq(b, i, i))
         IN  IF ca # cb THEN ca < cb ELSE StrLessFrom(a, b, i + 1)

StrLess(a, b) == StrLessFrom(a, b, 1)
StrLeq(a, b) == a = b \/ StrLess(a, b)

\* The orders in which a cursor can yield the rows S under an ORDER BY: every
\* arrangement of S that respects leq, the set of pairs <<x, y>> with x sorting
\* no later than y (rows that tie come in an order the database picks).
RECURSIVE OrdersBy(_, _)
OrdersBy(S, leq) ==
    IF S = {} THEN {<<>>}
    ELSE UNION {{<<x>> \o t : t \in OrdersBy(S \ {x}, leq)} :
                    x \in {m \in S : \A y \in S : <<m, y>> \in leq}}

\* Every arrangement of S (iteration over a Go map).
Permutations_(S) == OrdersBy(S, S \X S)

Range(f) == {f[i] : i \in DOMAIN f}

\* array_position(arr, x): the first subscript holding x (0 stands for NULL).
ArrayPosition(arr, x) ==
    IF \E i \in DOMAIN arr : arr[i] = x
    THEN CHOOSE i \in DOMAIN arr : arr[i] = x /\ \A j \in 1..(i - 1) : arr[j] # x
    ELSE 0

(***************************************************************************)
(* The system catalogs.  A catalog state is a record of relations:         *)
(*   namespace  [oid, nspname]                                             *)
(*   class      [oid, relname, relnamespace, relkind]  r, v or i           *)
(*   attribute  [attrelid, attnum, attname, typname, attnotnull,           *)
(*               atthasdef, attisdropped]                                  *)
(*   attrdef    [adrelid, adnum, adexpr]                                   *)
(*   constraint [conname, contype, conrelid, conkey, confrelid, confkey]   *)
(*   index      [indexrelid, indrelid, indisunique, indisprimary, indkey]  *)
(* typname is what pg_catalog.format_type renders for the attribute.       *)
(***************************************************************************)
Att(rel, num, name, typ, notnull, hasdef, dropped) ==
    [attrelid |-> rel, attnum |-> num, attname |-> name, typname |-> typ,
     attnotnull |-> notnull, atthasdef |-> hasdef, attisdropped |-> dropped]

Con(name, typ, rel, key, frel, fkey) ==
    [conname |-> name, contype |-> typ, conrelid |-> rel, conkey |-> key,
     confrelid |-> frel, confkey |-> fkey]

Cls(oid, name, nsp, kind) ==
    [oid |-> oid, relname |-> name, relnamespace |-> nsp, relkind |-> kind]

Idx(irel, rel, uniq, prim, key) ==
    [indexrelid |-> irel, indrelid |-> rel, indisunique |-> uniq,
     indisprimary |-> prim, indkey |-> key]

\* information_schema.tables: one row per table or view, with its schema name.
InformationSchemaTables(cat) ==
    {[table_schema |-> n.nspname, table_name |-> c.relname,
      table_type |-> IF c.relkind = "r" THEN "BASE TABLE" ELSE "VIEW"] :
        <<c, n>> \in {p \in cat.class \X cat.namespace :
                        /\ p[1].relnamespace = p[2].oid
                        /\ p[1].relkind \in {"r", "v"}}}

(***************************************************************************)
(* The catalog queries.  A query denotes the set of row sequences its      *)
(* cursor can yield: one sequence, unless rows tie under its ORDER BY.     *)
(***************************************************************************)
\* The table list query without its table_type condition.
TableListQueryAllTypes(cat, schema) ==
    LET names == {r.table_name : r \in {x \in InformationSchemaTables(cat) :
                        x.table_schema = schema}}
    IN  OrdersBy(names, {p \in names \X names : StrLeq(p[1], p[2])})

\* SELECT table_name FROM information_schema.tables WHERE table_schema = $1
\* AND table_type = 'BASE TABLE' ORDER BY table_name
TableListQuery(cat, schema) ==
    LET names == {r.table_name : r \in {x \in InformationSchemaTables(cat) :
                        x.table_schema = schema /\ x.table_type = "BASE TABLE"}}
    IN  OrdersBy(names, {p \in names \X names : StrLeq(p[1], p[2])})

\* SELECT EXISTS (SELECT 1 FROM information_schema.tables
\*                WHERE table_schema = $1 AND table_name = $2)
TableExistsQuery(cat, schema, tableName) ==
    \E r \in InformationSchemaTables(cat) :
        r.table_schema = schema /\ r.table_name = tableName

\* (SELECT oid FROM pg_class WHERE relname = $1 AND relnamespace =
\*    (SELECT oid FROM pg_namespace WHERE nspname = $2)): no row is NULL.
RelationOid(cat, schema, tableName) ==
    {c.oid : c \in {x \in cat.class :
        /\ x.relname = tableName
        /\ x.relnamespace \in {n.oid : n \in {y \in cat.namespace : y.nspname = schema}}}}

\* x LEFT JOIN M: each match, or one all-NULL row (the empty set) when none.
LeftJoin(M) == IF M = {} THEN {{}} ELSE {{m} : m \in M}

AttrdefOf(cat, a) ==
    LeftJoin({d \in cat.attrdef : a.attrelid = d.adrelid /\ a.attnum = d.adnum})

ConstraintOf(cat, a, typ) ==
    LeftJoin({k \in cat.constraint :
        k.conrelid = a.attrelid /\ a.attnum \in Range(k.conkey) /\ k.contype = typ})

FkClassOf(cat, fk) ==
    LeftJoin({c \in cat.class : \E k \in fk : k.confrelid = c.oid})

FkAttributeOf(cat, a, fk) ==
    LeftJoin({t \in cat.attribute : \E k \in fk :
        LET pos == ArrayPosition(k.conkey, a.attnum)
        IN  /\ k.confrelid = t.attrelid
            /\ t.attnum \in Range(k.confkey)
            /\ pos \in DOMAIN k.conkey /\ k.conkey[pos] = a.attnum
            /\ pos \in DOMAIN k.confkey /\ k.confkey[pos] = t.attnum})

\* The joined rows of the column query that pass its WHERE clause.
ColumnJoin(cat, schema, tableName) ==
    LET rel  == RelationOid(cat, schema, tableName)
        atts == {a \in cat.attribute :
                    a.attrelid \in rel /\ a.attnum > 0 /\ ~a.attisdropped}
    IN  UNION {UNION {{[a |-> a, adef |-> q[1], prim |-> q[2], fk |-> f,
                        fk_cl |-> q[3], att2 |-> q[4]] :
                          q \in AttrdefOf(cat, a) \X ConstraintOf(cat, a, "p")
                                  \X FkClassOf(cat, f) \X FkAttributeOf(cat, a, f)} :
                      f \in ConstraintOf(cat, a, "f")} :
               a \in atts}

\* The SELECT list of the column query; a NULL is the empty set.
ColumnRow(j) ==
    [column_name     |-> j.a.attname,
     data_type       |-> j.a.typname,
     is_nullable     |-> (j.a.attnotnull = FALSE),
     column_default  |-> IF j.a.atthasdef THEN {d.adexpr : d \in j.adef} ELSE {},
     is_primary_key  |-> (j.prim # {}),
     foreign_key_ref |-> IF j.fk # {}
                         THEN {c.relname \o " (" \o t.attname \o ")" :
                                 <<c, t>> \in j.fk_cl \X j.att2}
                         ELSE {}]

ColumnQuery(cat, schema, tableName) ==
    LET J == ColumnJoin(cat, schema, tableName)
        byAttnum == {p \in J \X J : p[1].a.attnum <= p[2].a.attnum}
    IN  {[i \in DOMAIN js |-> ColumnRow(js[i])] : js \in OrdersBy(J, byAttnum)}

\* The index query: pg_class t, pg_class i, pg_index ix, pg_attribute a,
\* pg_namespace n, ORDER BY i.relname, a.attnum.
IndexJoin(cat, schema, tableName) ==
    {[i |-> q[2], ix |-> q[3], a |-> q[4]] :
        q \in {x \in cat.class \X cat.class \X cat.index \X cat.attribute
                        \X cat.namespace :
                 /\ x[1].oid = x[3].indrelid
                 /\ x[2].oid = x[3].indexrelid
                 /\ x[4].attrelid = x[1].oid
                 /\ x[4].attnum \in Range(x[3].indkey)
                 /\ x[1].relkind = "r"
                 /\ x[1].relname = tableName
                 /\ x[5].oid = x[1].relnamespace
                 /\ x[5].nspname = schema}}

IndexRow(j) ==
    [index_name |-> j.i.relname, column_name |-> j.a.attname,
     is_unique |-> j.ix.indisunique, is_primary |-> j.ix.indisprimary]

IndexQuery(cat, schema, tableName) ==
    LET J == IndexJoin(cat, schema, tableName)
        byNameAttnum == {p \in J \X J :
            \/ StrLess(p[1].i.relname, p[2].i.relname)
            \/ /\ p[1].i.relname = p[2].i.relname
               /\ p[1].a.attnum <= p[2].a.attnum}
    IN  {[k \in DOMAIN js |-> IndexRow(js[k])] : js \in OrdersBy(J, byNameAttnum)}

(***************************************************************************)
(* Row processing in Go.                                                   *)
(***************************************************************************)
\* sql.NullString scanned from a nullable column.
NullString(x) ==
    IF x = {} THEN [Valid |-> FALSE, String |-> ""]
    ELSE [Valid |-> TRUE, String |-> CHOOSE v \in x : TRUE]

\* One pass of the column loop: rows.Scan, formatDataType, append.
ScanColumn(v, row) ==
    [Name         |-> row.column_name,
     Type         |-> FormatBy(v, row.data_type),
     Nullable     |-> row.is_nullable,
     DefaultValue |-> NullString(row.column_default),
     IsPrimaryKey |-> row.is_primary_key,
     ForeignKey   |-> NullString(row.foreign_key_ref)]

ScanColumns(v, rows) == [i \in DOMAIN rows |-> ScanColumn(v, rows[i])]

NewIndex(row) ==
    [Name |-> row.index_name, Columns |-> <<row.column_name>>,
     Unique |-> row.is_unique, PrimaryKey |-> row.is_primary]

\* A fold that overwrites the entry of a name already in the map.
RECURSIVE FoldIndexRowsOverwrite(_, _)
FoldIndexRowsOverwrite(rows, indexMap) ==
    IF rows = <<>> THEN indexMap
    ELSE LET row == Head(rows)
         IN  FoldIndexRowsOverwrite(Tail(rows),
                 [n \in DOMAIN indexMap \cup {row.index_name} |->
                     IF n = row.index_name THEN NewIndex(row) ELSE indexMap[n]])

\* The index loop: indexMap, keyed by index name, after the rows are consumed.
RECURSIVE FoldIndexRows(_, _)
FoldIndexRows(rows, indexMap) ==
    IF rows = <<>> THEN indexMap
    ELSE LET row == Head(rows)
             name == row.index_name
         IN  FoldIndexRows(Tail(rows),
                 IF name \in DOMAIN indexMap
                 THEN [indexMap EXCEPT ![name].Columns = Append(@, row.column_name)]
                 ELSE [n \in DOMAIN indexMap \cup {name} |->
                         IF n = name THEN NewIndex(row) ELSE indexMap[n]])

EmptyMap == [n \in {} |-> 0]

\* "Convert map to slice": range over a Go map visits the entries in an order
\* the runtime picks, so table.Indexes is any arrangement of the entries.
IndexSlices(rows) == Permutations_(Range(FoldIndexRows(rows, EmptyMap)))

(***************************************************************************)
(* Failures of the driver.  A call's faults is the set of failures that    *)
(* happened during it: a query that fails, a rows.Scan that fails on the   *)
(* k-th row, or a rows.Next that stops on a failure after k rows.          *)
(***************************************************************************)
DriverErr == "driver: bad connection"

Fault(kind, cursor, k) == [kind |-> kind, cursor |-> cursor, k |-> k]

Msg(v, what) ==
    IF v = "connector"
    THEN CASE what = "tables"   -> "error querying tables: "
           [] what = "tblscan"  -> "error scanning table results: "
           [] what = "exists"   -> "error checking table existence: "
           [] what = "columns"  -> "error querying columns: "
           [] what = "colscan"  -> "error scanning column results: "
           [] what = "indexes"  -> "error querying indexes: "
           [] what = "idxscan"  -> "error scanning index results: "
    ELSE CASE what = "tables"   -> "an error occurred fetching tables: "
           [] what = "tblscan"  -> "an error occurred scanning table: "
           [] what = "exists"   -> "an error occurred checking table existence: "
           [] what = "columns"  -> "an error occurred fetching columns: "
           [] what = "colscan"  -> "an error occurred scanning columns: "
           [] what = "indexes"  -> "an error occurred fetching indexes: "
           [] what = "idxscan"  -> "an error occurred scanning indexes: "

NotFoundMsg(v, schema, tableName) ==
    (IF v = "connector" THEN "table '" ELSE "the table '")
        \o schema \o "." \o tableName \o "' does not exist"

NotConnectedMsg == "not connected to database"

\* What a row loop leaves behind: the rows it consumed and the faults it met.
\* "scan" ends the call with an error; "next" ends the loop silently.
LoopOutcomes(rows, cursor) ==
    {[rows |-> rows, faults |-> {}, failed |-> FALSE]}
        \cup {[rows |-> SubSeq(rows, 1, k - 1),
               faults |-> {Fault("scan", cursor, k)}, failed |-> TRUE] :
                  k \in 1..Len(rows)}
        \cup {[rows |-> SubSeq(rows, 1, k),
               faults |-> {Fault("next", cursor, k)}, failed |-> FALSE] :
                  k \in 0..Len(rows)}

(***************************************************************************)
(* GetTableList / GetTables and GetTableStructure after the handle check:  *)
(* the set of results a call can return in a catalog state.  A result is   *)
(* the error ("" is nil), the table names, the *Table ({} is nil), the     *)
(* queries issued and the faults met.                                      *)
(***************************************************************************)
Result(err, tables, table, queries, faults) ==
    [err |-> err, tables |-> tables, table |-> table, queries |-> queries,
     faults |-> faults, opened |-> {}, deferred |-> <<>>, closed |-> {}]

\* The cursors of a call in progress: those its successful db.Query calls
\* opened, and the stack of rows.Close() calls it has deferred.
NoFrame == [opened |-> {}, deferred |-> <<>>]

\* rows, err := db.Query(...) with a nil error: rows is an open cursor.
QueryRows(frame, cursor) == [frame EXCEPT !.opened = @ \cup {cursor}]

\* A call that defers the Close of its other cursors but not of the index
\* cursor.
DeferCloseExceptIndexes(frame, cursor) ==
    IF cursor = "indexes" THEN frame
    ELSE [frame EXCEPT !.deferred = <<cursor>> \o @]

\* defer rows.Close(): pushed on the stack of deferred calls.
DeferClose(frame, cursor) == [frame EXCEPT !.deferred = <<cursor>> \o @]

\* A return of the call: the deferred calls run, last deferred first, and
\* each closes its cursor.
Return(res, frame) ==
    [res EXCEPT !.opened = frame.opened,
                !.deferred = frame.deferred,
                !.closed = {frame.deferred[i] : i \in DOMAIN frame.deferred}]

\* The cursors of a call that has not returned yet.
InFlight(res, frame) ==
    [res EXCEPT !.opened = frame.opened, !.deferred = frame.deferred]

FrameOf(res) == [opened |-> res.opened, deferred |-> res.deferred]

TableListResults(v, cat, schema) ==
    {Return(Result(Msg(v, "tables") \o DriverErr, <<>>, {}, <<"tables">>,
                   {Fault("query", "tables", 0)}), NoFrame)}
        \cup LET rowsOpen == DeferClose(QueryRows(NoFrame, "tables"), "tables")
             IN  UNION {{Return(IF o.failed
                                THEN Result(Msg(v, "tblscan") \o DriverErr, <<>>, {},
                                            <<"tables">>, o.faults)
                                ELSE Result("", o.rows, {}, <<"tables">>, o.faults),
                                rowsOpen) :
                            o \in LoopOutcomes(rows, "tables")} :
                        rows \in TableListQuery(cat, schema)}

\* From the index query to the return of the table, in a call whose cursors
\* so far are frame.
IndexPhase(v, cat, schema, tableName, columns, faults, frame) ==
    LET issued == <<"exists", "columns", "indexes">>
        indexRowsOpen == DeferClose(QueryRows(frame, "indexes"), "indexes")
    IN  {Return(Result(Msg(v, "indexes") \o DriverErr, <<>>, {}, issued,
                       faults \cup {Fault("query", "indexes", 0)}),
                frame)}
            \cup UNION {UNION {IF o.failed
                               THEN {Return(Result(Msg(v, "idxscan") \o DriverErr,
                                                   <<>>, {}, issued,
                                                   faults \cup o.faults),
                                            indexRowsOpen)}
                               ELSE {Return(Result("", <<>>,
                                                   {[Name |-> tableName,
                                                     Schema |-> schema,
                                                     Columns |-> columns,
                                                     Indexes |-> sl]},
                                                   issued, faults \cup o.faults),
                                            indexRowsOpen) :
                                        sl \in IndexSlices(o.rows)} :
                                  o \in LoopOutcomes(rows, "indexes")} :
                        rows \in IndexQuery(cat, schema, tableName)}

\* From the column query on.
ColumnPhase(v, cat, schema, tableName) ==
    LET issued == <<"exists", "columns">>
        rowsOpen == DeferClose(QueryRows(NoFrame, "columns"), "columns")
    IN  {Return(Result(Msg(v, "columns") \o DriverErr, <<>>, {}, issued,
                       {Fault("query", "columns", 0)}), NoFrame)}
            \cup UNION {UNION {IF o.failed
                               THEN {Return(Result(Msg(v, "colscan") \o DriverErr,
                                                   <<>>, {}, issued, o.faults),
                                            rowsOpen)}
                               ELSE IndexPhase(v, cat, schema, tableName,
                                               ScanColumns(v, o.rows), o.faults,
                                               rowsOpen) :
                                  o \in LoopOutcomes(rows, "columns")} :
                        rows \in ColumnQuery(cat, schema, tableName)}

\* A GetTableStructure that goes on to the column query without the
\* existence probe.
TableStructureResultsNoProbe(v, cat, schema, tableName) ==
    ColumnPhase(v, cat, schema, tableName)

\* The existence probe is a QueryRow whose Scan releases its own row; it
\* leaves no cursor to the call.
TableStructureResults(v, cat, schema, tableName) ==
    {Return(Result(Msg(v, "exists") \o DriverErr, <<>>, {}, <<"exists">>,
                   {Fault("query", "exists", 0)}), NoFrame)}
        \cup IF ~TableExistsQuery(cat, schema, tableName)
             THEN {Return(Result(NotFoundMsg(v, schema, tableName), <<>>, {},
                                 <<"exists">>, {}), NoFrame)}
             ELSE ColumnPhase(v, cat, schema, tableName)

(***************************************************************************)
(* Catalog states the model runs on.                                       *)
(***************************************************************************)
Namespaces == {[oid |-> 1, nspname |-> "public"], [oid |-> 2, nspname |-> "sales"]}

\* public.users, public.orders (with a foreign key to users), the view
\* public.v_users, sales.orders, and public.empty_t, which has no user column.
AllClasses ==
    {Cls(10, "users", 1, "r"), Cls(11, "orders", 1, "r"), Cls(12, "v_users", 1, "v"),
     Cls(13, "orders", 2, "r"), Cls(14, "empty_t", 1, "r"),
     Cls(20, "users_pkey", 1, "i"), Cls(21, "orders_pkey", 1, "i"),
     Cls(22, "orders_total_user_idx", 1, "i")}

AllAttributes ==
    {Att(10, -1, "ctid", "tid", TRUE, FALSE, FALSE),
     Att(10, 1, "id", "integer", TRUE, TRUE, FALSE),
     Att(10, 2, "name", "character varying(50)", FALSE, FALSE, FALSE),
     Att(10, 3, "........pg.dropped.3........", "-", FALSE, FALSE, TRUE),
     Att(11, 1, "id", "integer", TRUE, FALSE, FALSE),
     Att(11, 2, "user_id", "integer", TRUE, FALSE, FALSE),
     Att(11, 3, "total", "double precision", FALSE, FALSE, FALSE),
     Att(12, 1, "id", "integer", FALSE, FALSE, FALSE),
     Att(13, 1, "id", "integer", TRUE, FALSE, FALSE),
     Att(14, -1, "ctid", "tid", TRUE, FALSE, FALSE)}

AllAttrdefs ==
    {[adrelid |-> 10, adnum |-> 1, adexpr |-> "nextval('users_id_seq'::regclass)"]}

AllConstraints ==
    {Con("users_pkey", "p", 10, <<1>>, 0, <<>>),
     Con("orders_pkey", "p", 11, <<1>>, 0, <<>>),
     Con("orders_user_fk", "f", 11, <<2>>, 10, <<1>>)}

AllIndexes ==
    {Idx(20, 10, TRUE, TRUE, <<1>>), Idx(21, 11, TRUE, TRUE, <<1>>),
     Idx(22, 11, FALSE, FALSE, <<3, 2>>)}

TableOids == {10, 11, 12, 13, 14}

\* The catalog holding the relations S, with their indexes and constraints.
CatalogOf(S) ==
    [namespace  |-> Namespaces,
     class      |-> {c \in AllClasses :
                        \/ c.oid \in S
                        \/ \E ix \in AllIndexes :
                              ix.indexrelid = c.oid /\ ix.indrelid \in S},
     attribute  |-> {a \in AllAttributes : a.attrelid \in S},
     attrdef    |-> {d \in AllAttrdefs : d.adrelid \in S},
     constraint |-> {k \in AllConstraints : k.conrelid \in S},
     index      |-> {ix \in AllIndexes : ix.indrelid \in S}]

\* A foreign key keeps its referenced table in the catalog.
Catalogs == {CatalogOf(S) : S \in {T \in SUBSET TableOids : 11 \in T => 10 \in T}}

\* Catalog states around one table, public.items (id, owner_id, a dropped
\* column, note), under every choice of its constraints: a primary key on id
\* or on (id, owner_id), and foreign keys from owner_id to users(id), from
\* owner_id to accounts(id), and from (id, owner_id) to accounts(code, id).
ItemClasses ==
    {Cls(10, "users", 1, "r"), Cls(15, "accounts", 1, "r"), Cls(30, "items", 1, "r")}

ItemAttributes ==
    {Att(10, 1, "id", "integer", TRUE, TRUE, FALSE),
     Att(10, 2, "name", "character varying(50)", FALSE, FALSE, FALSE),
     Att(15, 1, "id", "integer", TRUE, FALSE, FALSE),
     Att(15, 2, "code", "integer", TRUE, FALSE, FALSE),
     Att(30, -1, "ctid", "tid", TRUE, FALSE, FALSE),
     Att(30, 1, "id", "integer", TRUE, TRUE, FALSE),
     Att(30, 2, "owner_id", "integer", FALSE, FALSE, FALSE),
     Att(30, 3, "........pg.dropped.3........", "-", FALSE, FALSE, TRUE),
     Att(30, 4, "note", "character(10)", FALSE, FALSE, FALSE)}

ItemAttrdefs ==
    {[adrelid |-> 30, adnum |-> 1, adexpr |-> "nextval('items_id_seq'::regclass)"]}

ItemConstraints ==
    {Con("items_pkey", "p", 30, <<1>>, 0, <<>>),
     Con("items_pkey", "p", 30, <<1, 2>>, 0, <<>>),
     Con("items_owner_fk", "f", 30, <<2>>, 10, <<1>>),
     Con("items_account_fk", "f", 30, <<2>>, 15, <<1>>),
     Con("items_pair_fk", "f", 30, <<1, 2>>, 15, <<2, 1>>)}

\* The catalog in which public.items has the constraints K; a primary key
\* comes with its index.
ItemCatalogOf(K) ==
    [namespace  |-> Namespaces,
     class      |-> ItemClasses \cup
                        {Cls(31, k.conname, 1, "i") : k \in {x \in K : x.contype = "p"}},
     attribute  |-> ItemAttributes,
     attrdef    |-> ItemAttrdefs,
     constraint |-> K,
     index      |-> {Idx(31, 30, TRUE, TRUE, k.conkey) : k \in {x \in K : x.contype = "p"}}]

\* A table has at most one primary key.
ItemCatalogs ==
    {ItemCatalogOf(K) : K \in {X \in SUBSET ItemConstraints :
                                  Cardinality({k \in X : k.contype = "p"}) <= 1}}

\* The catalog states of the connector's life-cycle runs.
ConnCatalogs == {CatalogOf({10, 12}), CatalogOf({13})}

Schemas == {"public", "sales", "nosuch"}
TableNames == {"users", "orders", "v_users", "empty_t", "items", "missing"}

(***************************************************************************)
(* PostgresConnector.                                                      *)
(***************************************************************************)
NoResult == Result("", <<>>, {}, <<>>, {})

Call(op, schema, tableName, res) ==
    [op |-> op, schema |-> schema, tableName |-> tableName, res |-> res]

\* A *sql.DB: whether its Ping succeeded and whether Close was called on it.
Handle(pinged, closed) == [pinged |-> pinged, closed |-> closed]

ConnectOutcomes == {"openerr", "pingerr", "ok"}

\* A Connect whose failed Ping closes the new handle but leaves it in pc.db.
ConnectKeepsFailedHandle(outcome) ==
    /\ outcome \in ConnectOutcomes
    /\ outcome # "openerr" => Len(handles) < MaxHandles
    /\ CASE outcome = "openerr" ->
              /\ db' = 0
              /\ handles' = handles
              /\ last' = Call("Connect", "", "",
                    Result("failed to connect to database: " \o DriverErr, <<>>, {},
                           <<>>, {Fault("open", "db", 0)}))
         [] outcome = "pingerr" ->
              /\ db' = Len(handles) + 1
              /\ handles' = Append(handles, Handle(FALSE, TRUE))
              /\ last' = Call("Connect", "", "",
                    Result("failed to ping database: " \o DriverErr, <<>>, {},
                           <<>>, {Fault("ping", "db", 0)}))
         [] outcome = "ok" ->
              /\ db' = Len(handles) + 1
              /\ handles' = Append(handles, Handle(TRUE, FALSE))
              /\ last' = Call("Connect", "", "", NoResult)
    /\ UNCHANGED <<catalog, fmtVars, foldVars, cliVars, raceVars>>

\* Connect(params): sql.Open, then Ping; a failed Ping closes the new handle
\* and clears pc.db.  The handle pc.db held before the call is overwritten.
Connect(outcome) ==
    /\ outcome \in ConnectOutcomes
    /\ outcome # "openerr" => Len(handles) < MaxHandles
    /\ CASE outcome = "openerr" ->
              /\ db' = 0
              /\ handles' = handles
              /\ last' = Call("Connect", "", "",
                    Result("failed to connect to database: " \o DriverErr, <<>>, {},
                           <<>>, {Fault("open", "db", 0)}))
         [] outcome = "pingerr" ->
              /\ db' = 0
              /\ handles' = Append(handles, Handle(FALSE, TRUE))
              /\ last' = Call("Connect", "", "",
                    Result("failed to ping database: " \o DriverErr, <<>>, {},
                           <<>>, {Fault("ping", "db", 0)}))
         [] outcome = "ok" ->
              /\ db' = Len(handles) + 1
              /\ handles' = Append(handles, Handle(TRUE, FALSE))
              /\ last' = Call("Connect", "", "", NoResult)
    /\ UNCHANGED <<catalog, fmtVars, foldVars, cliVars, raceVars>>

\* A Disconnect that returns the close error before it clears pc.db.
DisconnectKeepsHandleOnError(closeErr) ==
    /\ closeErr \in BOOLEAN
    /\ closeErr => db # 0
    /\ IF db # 0
       THEN /\ handles' = [handles EXCEPT ![db].closed = TRUE]
            /\ db' = IF closeErr THEN db ELSE 0
            /\ last' = Call("Disconnect", "", "",
                  IF closeErr
                  THEN Result("error closing database connection: " \o DriverErr,
                              <<>>, {}, <<>>, {Fault("close", "db", 0)})
                  ELSE NoResult)
       ELSE /\ UNCHANGED <<db, handles>>
            /\ last' = Call("Disconnect", "", "", NoResult)
    /\ UNCHANGED <<catalog, fmtVars, foldVars, cliVars, raceVars>>

\* Disconnect(): closes and clears the handle if there is one.
Disconnect(closeErr) ==
    /\ closeErr \in BOOLEAN
    /\ closeErr => db # 0
    /\ IF db # 0
       THEN /\ handles' = [handles EXCEPT ![db].closed = TRUE]
            /\ db' = 0
            /\ last' = Call("Disconnect", "", "",
                  IF closeErr
                  THEN Result("error closing database connection: " \o DriverErr,
                              <<>>, {}, <<>>, {Fault("close", "db", 0)})
                  ELSE NoResult)
       ELSE /\ UNCHANGED <<db, handles>>
            /\ last' = Call("Disconnect", "", "", NoResult)
    /\ UNCHANGED <<catalog, fmtVars, foldVars, cliVars, raceVars>>

NotConnected == Result(NotConnectedMsg, <<>>, {}, <<>>, {})

\* A GetTables without the check of pc.db.
GetTablesNoCheck(schema) ==
    /\ schema \in Schemas
    /\ \E res \in TableListResults("connector", catalog, schema) :
          last' = Call("GetTables", schema, "", res)
    /\ UNCHANGED <<db, handles, catalog, fmtVars, foldVars, cliVars, raceVars>>

\* GetTables(schema)
GetTables(schema) ==
    /\ schema \in Schemas
    /\ \E res \in IF db = 0 THEN {NotConnected}
                  ELSE TableListResults("connector", catalog, schema) :
          last' = Call("GetTables", schema, "", res)
    /\ UNCHANGED <<db, handles, catalog, fmtVars, foldVars, cliVars, raceVars>>

\* GetTableStructure(schema, tableName)
GetTableStructure(schema, tableName) ==
    /\ schema \in Schemas
    /\ tableName \in TableNames
    /\ \E res \in IF db = 0 THEN {NotConnected}
                  ELSE TableStructureResults("connector", catalog, schema, tableName) :
          last' = Call("GetTableStructure", schema, tableName, res)
    /\ UNCHANGED <<db, handles, catalog, fmtVars, foldVars, cliVars, raceVars>>

NoCall == Call("new", "", "", NoResult)

FmtIdle == pgType = "" /\ variant = "connector" /\ formatted = <<>>
FoldIdle == indexRows = <<>> /\ indexes = <<>> /\ folded = FALSE

\* The command-line program not started; no GetTableStructure in flight.
NoOut == [kind |-> "", text |-> ""]
CliIdle == cli = [pc |-> "off", args |-> <<>>, schema |-> "", stdin |-> <<>>,
                  out |-> NoOut]
RaceIdle == race = [pc |-> "off", schema |-> "", tableName |-> "", seen |-> {},
                    columns |-> <<>>, res |-> NoResult]

Init ==
    /\ db = 0
    /\ handles = <<>>
    /\ catalog \in ConnCatalogs
    /\ last = NoCall
    /\ FmtIdle
    /\ FoldIdle
    /\ CliIdle
    /\ RaceIdle

Next ==
    \/ \E outcome \in ConnectOutcomes : Connect(outcome)
    \/ \E closeErr \in BOOLEAN : Disconnect(closeErr)
    \/ \E schema \in Schemas : GetTables(schema)
    \/ \E schema \in Schemas, tableName \in TableNames :
          GetTableStructure(schema, tableName)

Spec == Init /\ [][Next]_vars

(***************************************************************************)
(* GetTables and GetTableStructure on a connected connector, over every    *)
(* catalog state of the model.  The run starts in the state a successful   *)
(* Connect on a new connector leaves; the life cycle of the handle is the  *)
(* subject of Spec.                                                        *)
(***************************************************************************)
InitCatalog ==
    /\ db = 1
    /\ handles = <<Handle(TRUE, FALSE)>>
    /\ catalog \in Catalogs \cup ItemCatalogs
    /\ last = Call("Connect", "", "", NoResult)
    /\ FmtIdle
    /\ FoldIdle
    /\ CliIdle
    /\ RaceIdle

NextCatalog ==
    \/ \E schema \in Schemas : GetTables(schema)
    \/ \E schema \in Schemas, tableName \in TableNames :
          GetTableStructure(schema, tableName)

SpecCatalog == InitCatalog /\ [][NextCatalog]_vars

(***************************************************************************)
(* formatDataType applied, and applied again to its own result.            *)
(***************************************************************************)
ConnIdle == db = 0 /\ handles = <<>> /\ catalog = CatalogOf({}) /\ last = NoCall

Current == IF formatted = <<>> THEN pgType ELSE formatted[Len(formatted)]

Format ==
    /\ variant = "connector"
    /\ Len(formatted) < MaxApply
    /\ formatted' = Append(formatted, formatDataType(Current))
    /\ UNCHANGED <<connVars, pgType, variant, foldVars, cliVars, raceVars>>

FormatPkg ==
    /\ variant = "package"
    /\ Len(formatted) < MaxApply
    /\ formatted' = Append(formatted, formatDataTypePkg(Current))
    /\ UNCHANGED <<connVars, pgType, variant, foldVars, cliVars, raceVars>>

InitFmt ==
    /\ ConnIdle
    /\ pgType \in FormatInputs
    /\ variant \in Variants
    /\ formatted = <<>>
    /\ FoldIdle
    /\ CliIdle
    /\ RaceIdle

NextFmt == Format \/ FormatPkg

SpecFmt == InitFmt /\ [][NextFmt]_vars

(***************************************************************************)
(* The index loop of GetTableStructure over any sequence of cursor rows.   *)
(***************************************************************************)
IndexNames == {"idx_a", "idx_b"}
ColumnNames == {"col1", "col2", "col3"}

IndexRowValues ==
    [index_name : IndexNames, column_name : ColumnNames,
     is_unique : BOOLEAN, is_primary : BOOLEAN]

Fold ==
    /\ ~folded
    /\ \E sl \in IndexSlices(indexRows) : indexes' = sl
    /\ folded' = TRUE
    /\ UNCHANGED <<connVars, fmtVars, indexRows, cliVars, raceVars>>

InitFold ==
    /\ ConnIdle
    /\ FmtIdle
    /\ indexRows \in UNION {[1..n -> IndexRowValues] : n \in 0..MaxRows}
    /\ indexes = <<>>
    /\ folded = FALSE
    /\ CliIdle
    /\ RaceIdle

NextFold == Fold

SpecFold == InitFold /\ [][NextFold]_vars

(***************************************************************************)
(* Properties of the connector's life cycle (Spec).                        *)
(***************************************************************************)
Unclosed == {i \in DOMAIN handles : ~handles[i].closed}

\* C1: after any sequence of Connect and Disconnect calls at most one opened
\* handle remains unclosed, and it is the one the connector holds: Connect
\* closes the handle it held before it installs the new one.
C1_PriorHandleClosed == Unclosed \subseteq {db}

\* C2: Disconnect always leaves the connector not connected.  With no handle
\* it returns nil and changes nothing; with a handle it closes and clears it,
\* and returns an error exactly when the close reported one.
C2_DisconnectClears ==
    [][last'.op = "Disconnect" =>
          /\ db' = 0
          /\ db = 0 => /\ last'.res.err = ""
                       /\ handles' = handles
                       /\ catalog' = catalog
          /\ db # 0 => /\ handles'[db].closed
                       /\ \A i \in DOMAIN handles : i # db => handles'[i] = handles[i]
                       /\ DOMAIN handles' = DOMAIN handles
                       /\ (last'.res.err # "") =
                             (Fault("close", "db", 0) \in last'.res.faults)]_vars

\* C2 witness: a Disconnect whose close failed has returned the error and
\* the connector holds no handle.
C2_Witness ==
    /\ last.op = "Disconnect"
    /\ last.res.err = "error closing database connection: " \o DriverErr
    /\ db = 0
    /\ handles # <<>>
    /\ \A i \in DOMAIN handles : handles[i].closed

\* C3: when the Ping of a Connect fails, the new handle is closed, pc.db is
\* nil and an error is returned; and the Connect that succeeds after a failed
\* one leaves the connector holding exactly the new, open handle.
C3_FailedConnectReleases ==
    /\ [](last.op = "Connect" /\ Fault("ping", "db", 0) \in last.res.faults =>
              /\ db = 0
              /\ last.res.err # ""
              /\ handles # <<>>
              /\ handles[Len(handles)] = Handle(FALSE, TRUE))
    /\ [][last.op = "Connect" /\ last.res.err # ""
              /\ last'.op = "Connect" /\ last'.res.err = "" =>
              /\ Len(handles') = Len(handles) + 1
              /\ db' = Len(handles')
              /\ handles'[db'] = Handle(TRUE, FALSE)
              /\ \A i \in DOMAIN handles : handles'[i] = handles[i]]_vars

\* C3 witness: the first Connect failed its Ping, the second succeeded.
C3_Witness ==
    /\ last.op = "Connect"
    /\ last.res.err = ""
    /\ handles = <<Handle(FALSE, TRUE), Handle(TRUE, FALSE)>>
    /\ db = 2

\* C4: with no handle, GetTables and GetTableStructure return the
\* not-connected error, issue no query and change nothing.
C4_RequiresHandle ==
    [][last'.op \in {"GetTables", "GetTableStructure"} /\ db = 0 =>
          /\ last'.res.err = NotConnectedMsg
          /\ last'.res.queries = <<>>
          /\ last'.res.tables = <<>>
          /\ last'.res.table = {}
          /\ db' = 0
          /\ handles' = handles
          /\ catalog' = catalog]_vars

\* C4 witness: GetTableStructure refused after a Connect whose Ping failed.
C4_Witness ==
    /\ last.op = "GetTableStructure"
    /\ last.res.err = NotConnectedMsg
    /\ last.res.queries = <<>>
    /\ db = 0
    /\ handles = <<Handle(FALSE, TRUE)>>

(***************************************************************************)
(* Properties of the catalog readers (SpecCatalog), stated against the     *)
(* catalog relations themselves.                                           *)
(***************************************************************************)
\* The tables and views named tableName in the schema named schema.
Relations(schema, tableName) ==
    {c \in catalog.class :
        /\ c.relname = tableName
        /\ c.relkind \in {"r", "v"}
        /\ \E n \in catalog.namespace : n.oid = c.relnamespace /\ n.nspname = schema}

BaseTableNames(schema) ==
    {c.relname : c \in {x \in catalog.class :
        /\ x.relkind = "r"
        /\ \E n \in catalog.namespace : n.oid = x.relnamespace /\ n.nspname = schema}}

\* The user columns of the relations R that are not dropped.
VisibleAttributes(R) ==
    {a \in catalog.attribute :
        a.attrelid \in {c.oid : c \in R} /\ a.attnum > 0 /\ ~a.attisdropped}

Ascending(names) ==
    \A i, j \in DOMAIN names : i < j => StrLess(names[i], names[j])

\* The calls of the last step that ran their queries without a driver failure.
Ran(op) == last.op = op /\ db # 0 /\ last.res.faults = {}

DescribesMissing(v, res, schema, tableName) ==
    /\ res.table = {}
    /\ res.err = (IF v = "connector" THEN "table '" ELSE "the table '")
                    \o schema \o "." \o tableName \o "' does not exist"
    /\ Contains(res.err, schema \o "." \o tableName)
    /\ res.queries = <<"exists">>

DescribesColumnless(res, schema, tableName) ==
    /\ res.err = ""
    /\ Cardinality(res.table) = 1
    /\ \A t \in res.table :
          t.Name = tableName /\ t.Schema = schema /\ t.Columns = <<>>

DescribeDistinguishes(v, res, schema, tableName) ==
    LET R == Relations(schema, tableName)
    IN  /\ R = {} => DescribesMissing(v, res, schema, tableName)
        /\ R # {} /\ VisibleAttributes(R) = {} =>
              DescribesColumnless(res, schema, tableName)

\* C5: GetTableStructure of a pair with no entry in the table-metadata
\* catalog fails with the not-found error naming "<schema>.<table>" and runs
\* only the existence probe; of a pair with an entry and no visible attribute
\* it returns the Table, name and schema set, with no column and no error.
\* The same holds of the package function called with the same arguments in
\* the same catalog state.
C5_MissingVersusColumnless ==
    Ran("GetTableStructure") =>
        /\ DescribeDistinguishes("connector", last.res, last.schema, last.tableName)
        /\ \A res \in TableStructureResults("package", catalog, last.schema,
                                            last.tableName) :
              res.faults = {} =>
                  DescribeDistinguishes("package", res, last.schema, last.tableName)

\* C5 witness: public.empty_t, which has only a system column, was described
\* as a Table without columns.
C5_Witness ==
    /\ Ran("GetTableStructure")
    /\ last.schema = "public" /\ last.tableName = "empty_t"
    /\ Relations("public", "empty_t") # {}
    /\ \E a \in catalog.attribute : a.attrelid = 14
    /\ last.res.err = ""
    /\ \E t \in last.res.table : t.Columns = <<>> /\ t.Name = "empty_t"

ListsBaseTables(res, schema) ==
    /\ res.err = ""
    /\ Ascending(res.tables)
    /\ Range(res.tables) = BaseTableNames(schema)

\* C6: GetTables returns exactly the names of the base tables of the schema,
\* each once, in ascending order; no views, no tables of other schemas; an
\* empty or unknown schema gives the empty sequence and no error.  The same
\* holds of the package function GetTableList called with the same schema.
C6_ListsBaseTablesSorted ==
    Ran("GetTables") =>
        /\ ListsBaseTables(last.res, last.schema)
        /\ \A res \in TableListResults("package", catalog, last.schema) :
              res.faults = {} => ListsBaseTables(res, last.schema)

\* C6 witness: with a view in public and an orders table in both schemas,
\* GetTables("public") returned the three base tables of public in order.
C6_Witness ==
    /\ Ran("GetTables")
    /\ last.schema = "public"
    /\ catalog = CatalogOf(TableOids)
    /\ last.res.tables = <<"empty_t", "orders", "users">>
    /\ last.res.err = ""

\* The names of the visible attributes of R by ascending attribute number.
RECURSIVE NamesByAttnum(_)
NamesByAttnum(A) ==
    IF A = {} THEN <<>>
    ELSE LET a == CHOOSE x \in A : \A y \in A : x.attnum <= y.attnum
         IN  <<a.attname>> \o NamesByAttnum(A \ {a})

\* C10: the columns GetTableStructure returns are exactly the visible,
\* non-dropped attributes of the table, one Column each, in ascending
\* attribute-number order, whatever primary-key and foreign-key constraints
\* the columns take part in.
C10_OneColumnPerAttribute ==
    Ran("GetTableStructure") /\ last.res.err = "" =>
        \A t \in last.res.table :
            [i \in DOMAIN t.Columns |-> t.Columns[i].Name] =
                NamesByAttnum(VisibleAttributes(Relations(last.schema, last.tableName)))

(***************************************************************************)
(* Properties of the index fold (SpecFold).                                *)
(***************************************************************************)
RowsOf(name) == SelectSeq(indexRows, LAMBDA r : r.index_name = name)

\* C7: the fold yields exactly one Index per distinct index name; its
\* columns are those of the rows with that name, in the order the rows came;
\* its flags are those of the first row with that name.
C7_IndexFold ==
    folded =>
        /\ {indexes[i].Name : i \in DOMAIN indexes} =
              {indexRows[k].index_name : k \in DOMAIN indexRows}
        /\ \A i, j \in DOMAIN indexes : i # j => indexes[i].Name # indexes[j].Name
        /\ \A i \in DOMAIN indexes :
              LET rs == RowsOf(indexes[i].Name)
              IN  /\ indexes[i].Columns = [k \in DOMAIN rs |-> rs[k].column_name]
                  /\ indexes[i].Unique = rs[1].is_unique
                  /\ indexes[i].PrimaryKey = rs[1].is_primary
        /\ indexRows = <<[index_name |-> "idx_a", column_name |-> "col1",
                          is_unique |-> TRUE, is_primary |-> FALSE],
                         [index_name |-> "idx_a", column_name |-> "col2",
                          is_unique |-> TRUE, is_primary |-> FALSE],
                         [index_name |-> "idx_b", column_name |-> "col3",
                          is_unique |-> FALSE, is_primary |-> TRUE]>> =>
              Range(indexes) =
                  {[Name |-> "idx_a", Columns |-> <<"col1", "col2">>,
                    Unique |-> TRUE, PrimaryKey |-> FALSE],
                   [Name |-> "idx_b", Columns |-> <<"col3">>,
                    Unique |-> FALSE, PrimaryKey |-> TRUE]}

\* C7 witness: rows of idx_a separated by a row of idx_b, with differing
\* flags, folded into two entries.
C7_Witness ==
    /\ folded
    /\ Len(indexRows) = 3
    /\ indexRows[1].index_name = "idx_a" /\ indexRows[2].index_name = "idx_b"
    /\ indexRows[3].index_name = "idx_a"
    /\ indexRows[1].is_unique # indexRows[3].is_unique
    /\ Len(indexes) = 2

(***************************************************************************)
(* Properties of formatDataType (SpecFmt).                                 *)
(***************************************************************************)
\* C8 as claimed: for every input string, formatting the result again
\* changes nothing.
C8_IdempotentOnAllInputs ==
    Len(formatted) >= 2 => formatted[2] = formatted[1]

\* C8: on the type names format_type renders for built-in types, formatting
\* the result again changes nothing, in both variants.
C8_IdempotentOnTypeNames ==
    pgType \in CatalogTypeNames /\ Len(formatted) >= 2 => formatted[2] = formatted[1]

\* C8 witness: "character varying(50)" formatted twice.
C8_Witness ==
    /\ pgType = "character varying(50)"
    /\ Len(formatted) = 2
    /\ formatted[1] = "varchar(50)"

\* C9: "character varying" is rewritten before "character": with any length
\* suffix "character varying(n)" becomes "varchar(n)", never "char varying(n)";
\* "character(n)" becomes "char(n)"; "double precision" becomes "double".
C9_VaryingBeforeCharacter ==
    Len(formatted) >= 1 =>
        \A x \in Suffixes :
            /\ pgType = "character varying" \o x =>
                  formatted[1] = "varchar" \o x /\ formatted[1] # "char varying" \o x
            /\ pgType = "character" \o x => formatted[1] = "char" \o x
            /\ pgType = "double precision" => formatted[1] = "double"

\* C9 witness: "character varying(50)" became "varchar(50)".
C9_Witness ==
    /\ pgType = "character varying(50)"
    /\ variant = "connector"
    /\ formatted = <<"varchar(50)">>


(***************************************************************************)
(* Failures of the driver during the catalog readers (SpecCatalog).        *)
(***************************************************************************)
\* C11: every failure during GetTables or GetTableStructure (a query that
\* fails, a row loop that stops on a failure, a row that does not decode) is
\* returned to the caller as an error; a call that returns success reflects
\* every row of its catalog queries.
C11_FailuresReturned ==
    last.op \in {"GetTables", "GetTableStructure"} /\ db # 0 =>
        /\ last.res.faults # {} => last.res.err # ""
        /\ last.op = "GetTables" /\ last.res.err = "" =>
              last.res.tables \in TableListQuery(catalog, last.schema)

(***************************************************************************)
(* The order of table.Indexes (SpecFold).                                  *)
(***************************************************************************)
\* C14: for fixed index rows the Index entries come out in one order, by
\* ascending index name.
C14_IndexesOrderedByName ==
    folded => \A i, j \in DOMAIN indexes :
                  i < j => StrLess(indexes[i].Name, indexes[j].Name)


(***************************************************************************)
(* Result cursors (SpecCatalog).                                           *)
(***************************************************************************)
\* The cursors a returned call must have been given: one for each db.Query
\* it issued that met no query error, read off the queries and the faults of
\* the result.  The existence probe is a QueryRow and hands out no cursor.
QueriedCursors(res) ==
    {q \in Range(res.queries) \ {"exists"} :
        Fault("query", q, 0) \notin res.faults}

\* The cursors a returned call opened and has not closed.
Leaked(res) == (res.opened \cup QueriedCursors(res)) \ res.closed

\* C12: when GetTables or GetTableStructure returns, by success or by any
\* error, no cursor it opened is left unclosed; the same holds for the
\* package functions on the same arguments.
C12_CursorsReleased ==
    /\ last.op \in {"GetTables", "GetTableStructure"} => Leaked(last.res) = {}
    /\ last.op = "GetTables" /\ db # 0 =>
          \A r \in TableListResults("package", catalog, last.schema) :
              Leaked(r) = {}
    /\ last.op = "GetTableStructure" /\ db # 0 =>
          \A r \in TableStructureResults("package", catalog, last.schema,
                                         last.tableName) :
              Leaked(r) = {}

\* A Scan of an index row failed with both cursors open, and the call
\* returned the error after the two deferred closes ran, the index cursor's
\* first.
C12_Witness ==
    /\ last.op = "GetTableStructure"
    /\ last.res.err # ""
    /\ \E k \in 1..MaxRows : Fault("scan", "indexes", k) \in last.res.faults
    /\ QueriedCursors(last.res) = {"columns", "indexes"}
    /\ last.res.opened = {"columns", "indexes"}
    /\ last.res.deferred = <<"indexes", "columns">>
    /\ last.res.closed = {"columns", "indexes"}


(***************************************************************************)
(* Which relations the two readers see (SpecCatalog).                      *)
(***************************************************************************)
ListedNames(schema) ==
    UNION {Range(rows) : rows \in TableListQuery(catalog, schema)}

\* C15: in one catalog state, with an open handle and no driver failure,
\* GetTableStructure(schema, name) returns a table if and only if name is
\* among the names GetTables(schema) returns; a view is rejected as not
\* found just as GetTables omits it.
C15_ListAndDescribeAgree ==
    Ran("GetTableStructure") =>
        (last.res.table # {} <=> last.tableName \in ListedNames(last.schema))


(***************************************************************************)
(* The command-line program (main.go): start-up, then the interactive      *)
(* loop over the lines of standard input.                                  *)
(***************************************************************************)
MaxLines == 2       \* lines standard input holds

\* A line of standard input is a sequence of Unicode code points (runes);
\* the strings of this module hold ASCII text.  PrintableLow is the ASCII
\* characters U+0020..U+005F and PrintableHigh U+0061..U+007E, in code order
\* (a string of this language cannot hold U+0060).
PrintableLow ==
    " !\"#$%&'()*+,-./0123456789:;<=>?@ABCDEFGHIJKLMNOPQRSTUVWXYZ[\\]^_"
PrintableHigh == "abcdefghijklmnopqrstuvwxyz{|}~"

\* The code point of a one-character ASCII string.
Ord(c) ==
    CASE c = "\t" -> 9
      [] c = "\n" -> 10
      [] c = "\f" -> 12
      [] c = "\r" -> 13
      [] \E k \in 1..Len(PrintableLow) : SubSeq(PrintableLow, k, k) = c ->
            31 + CHOOSE k \in 1..Len(PrintableLow) : SubSeq(PrintableLow, k, k) = c
      [] \E k \in 1..Len(PrintableHigh) : SubSeq(PrintableHigh, k, k) = c ->
            96 + CHOOSE k \in 1..Len(PrintableHigh) : SubSeq(PrintableHigh, k, k) = c

\* The one-character string of an ASCII code point.
Chr(r) ==
    CASE r \in 32..95  -> SubSeq(PrintableLow, r - 31, r - 31)
      [] r \in 97..126 -> SubSeq(PrintableHigh, r - 96, r - 96)
      [] r = 9  -> "\t"
      [] r = 10 -> "\n"
      [] r = 12 -> "\f"
      [] r = 13 -> "\r"

Runes(s) == [i \in 1..Len(s) |-> Ord(SubSeq(s, i, i))]

RECURSIVE String(_)
String(rs) == IF rs = <<>> THEN "" ELSE Chr(Head(rs)) \o String(Tail(rs))

\* The white space strings.TrimSpace trims (unicode.IsSpace): tab, line
\* feed, vertical tab, form feed, carriage return, space, U+0085, U+00A0,
\* U+1680, U+2000..U+200A, U+2028, U+2029, U+202F, U+205F, U+3000.
WhiteSpace ==
    {9, 10, 11, 12, 13, 32, 133, 160, 5760, 8232, 8233, 8239, 8287, 12288}
        \cup (8192..8202)

RECURSIVE TrimLeft(_)
TrimLeft(s) ==
    IF s # <<>> /\ Head(s) \in WhiteSpace THEN TrimLeft(Tail(s)) ELSE s

RECURSIVE TrimRight(_)
TrimRight(s) ==
    IF s # <<>> /\ s[Len(s)] \in WhiteSpace
    THEN TrimRight(SubSeq(s, 1, Len(s) - 1))
    ELSE s

TrimSpace(s) == TrimRight(TrimLeft(s))

QuitWords == {"q", "exit", "quit"}

\* What standard input can hold: lines ended by a line feed and, as the last
\* thing before the end of input, text without one.  White space of every
\* kind surrounds the text: ASCII, U+00A0 and U+0085, U+2003 and U+3000.
CliLines ==
    {Runes("q\n"), Runes(" exit \n"), Runes("quit\r\n"),
     <<12>> \o Runes("q") \o <<11, 10>>,
     <<160>> \o Runes("quit") \o <<133, 10>>,
     <<8195>> \o Runes("exit") \o <<12288, 10>>,
     Runes("Q\n"), Runes("\n"), Runes("users\n"), Runes(" v_users\t\n"),
     Runes("missing\n"), Runes("quit now\n")}
CliTails == {Runes("q"), Runes("users")}

Stdins ==
    UNION {{ls \in [1..n -> CliLines \cup CliTails] :
                \A i \in 1..n : ls[i] \in CliTails => i = n} : n \in 0..MaxLines}

EndsLine(s) == s # <<>> /\ s[Len(s)] = 10

\* reader.ReadString('\n'): the next line with a nil error, or what is left
\* before the end of input with the error; the end of input stays.
ReadString(stdin) ==
    IF stdin # <<>> /\ EndsLine(Head(stdin))
    THEN [input |-> Head(stdin), err |-> "", rest |-> Tail(stdin)]
    ELSE [input |-> IF stdin = <<>> THEN <<>> ELSE Head(stdin), err |-> "EOF",
          rest |-> <<>>]

Out(kind, text) == [kind |-> kind, text |-> text]

\* log.Fatal / log.Fatalf: print and os.Exit(1); deferred calls do not run.
Fatal(text) == [cli EXCEPT !.pc = "fatal", !.out = Out("fatal", text)]

StartupOutcomes == {"envload", "envmissing", "openerr", "pingerr", "ok"}

\* main() up to the loop: load the environment, open and ping the database,
\* choose the schema, list its tables.
Startup(outcome) ==
    /\ cli.pc = "start"
    /\ outcome \in StartupOutcomes
    /\ CASE outcome = "envload" ->
              /\ cli' = Fatal("Error loading env: ")
              /\ UNCHANGED <<handles, last>>
         [] outcome = "envmissing" ->
              /\ cli' = Fatal("Missing env variables DB_USER, DB_HOST or DB_NAME")
              /\ UNCHANGED <<handles, last>>
         [] outcome = "openerr" ->
              /\ cli' = Fatal("An error occurred connecting to database: " \o DriverErr)
              /\ UNCHANGED <<handles, last>>
         [] outcome = "pingerr" ->
              /\ cli' = Fatal("An error occurred pinging the database: " \o DriverErr)
              /\ handles' = Append(handles, Handle(FALSE, FALSE))
              /\ UNCHANGED last
         [] outcome = "ok" ->
              LET schema == IF Len(cli.args) > 0 THEN cli.args[1] ELSE "public"
              IN  /\ handles' = Append(handles, Handle(TRUE, FALSE))
                  /\ \E res \in TableListResults("package", catalog, schema) :
                        /\ last' = Call("GetTableList", schema, "", res)
                        /\ cli' = IF res.err # ""
                                  THEN [Fatal("An error occurred obtaining tables list: "
                                                  \o res.err)
                                           EXCEPT !.schema = schema]
                                  ELSE [cli EXCEPT !.pc = "prompt", !.schema = schema,
                                                   !.out = Out("tables", schema)]
    /\ UNCHANGED <<db, catalog, fmtVars, foldVars, raceVars>>

\* The head of the loop: print the prompt.
Prompt ==
    /\ cli.pc = "prompt"
    /\ cli' = [cli EXCEPT !.pc = "read", !.out = Out("prompt", "")]
    /\ UNCHANGED <<connVars, fmtVars, foldVars, raceVars>>

\* A loop body that leaves the loop when the table cannot be described.
ReadLineStopsOnError ==
    /\ cli.pc = "read"
    /\ \E r \in {ReadString(cli.stdin)} :
       \E input \in {String(TrimSpace(r.input))} :
           IF r.err # ""
           THEN /\ cli' = [cli EXCEPT !.pc = "prompt", !.stdin = r.rest,
                                      !.out = Out("readerr", r.err)]
                /\ UNCHANGED <<handles, last>>
           ELSE IF input \in QuitWords
           THEN /\ cli' = [cli EXCEPT !.pc = "done", !.stdin = r.rest,
                                      !.out = Out("closing", "")]
                /\ handles' = [handles EXCEPT ![Len(handles)].closed = TRUE]
                /\ UNCHANGED last
           ELSE \E res \in TableStructureResults("package", catalog, cli.schema,
                                                 input) :
                   /\ last' = Call("GetTableStructure", cli.schema, input, res)
                   /\ IF res.err # ""
                      THEN /\ cli' = [cli EXCEPT !.pc = "done", !.stdin = r.rest,
                                                 !.out = Out("error", res.err)]
                           /\ handles' = [handles EXCEPT ![Len(handles)].closed = TRUE]
                      ELSE /\ cli' = [cli EXCEPT !.pc = "prompt", !.stdin = r.rest,
                                                 !.out = Out("table", input)]
                           /\ UNCHANGED handles
    /\ UNCHANGED <<db, catalog, fmtVars, foldVars, raceVars>>

\* The rest of the loop body: read a line; on a read error report it and
\* continue; on a closing word break; otherwise describe the table and print
\* it, or report the error and continue.
ReadLine ==
    /\ cli.pc = "read"
    /\ \E r \in {ReadString(cli.stdin)} :
       \E input \in {String(TrimSpace(r.input))} :
           IF r.err # ""
           THEN /\ cli' = [cli EXCEPT !.pc = "prompt", !.stdin = r.rest,
                                      !.out = Out("readerr", r.err)]
                /\ UNCHANGED <<handles, last>>
           ELSE IF input \in QuitWords
           THEN /\ cli' = [cli EXCEPT !.pc = "done", !.stdin = r.rest,
                                      !.out = Out("closing", "")]
                /\ handles' = [handles EXCEPT ![Len(handles)].closed = TRUE]
                /\ UNCHANGED last
           ELSE \E res \in TableStructureResults("package", catalog, cli.schema,
                                                 input) :
                   /\ last' = Call("GetTableStructure", cli.schema, input, res)
                   /\ cli' = [cli EXCEPT !.pc = "prompt", !.stdin = r.rest,
                                         !.out = IF res.err # ""
                                                 THEN Out("error", res.err)
                                                 ELSE Out("table", input)]
                   /\ UNCHANGED handles
    /\ UNCHANGED <<db, catalog, fmtVars, foldVars, raceVars>>

InitCLI ==
    /\ db = 0
    /\ handles = <<>>
    /\ catalog \in ConnCatalogs
    /\ last = NoCall
    /\ FmtIdle
    /\ FoldIdle
    /\ RaceIdle
    /\ cli \in [pc : {"start"}, args : {<<>>, <<"sales">>}, schema : {""},
                stdin : Stdins, out : {NoOut}]

NextCLI ==
    \/ \E outcome \in StartupOutcomes : Startup(outcome)
    \/ Prompt
    \/ ReadLine

SpecCLI == InitCLI /\ [][NextCLI]_vars

\* The program is one sequential process: a step that can be taken is taken.
FairSpecCLI == SpecCLI /\ WF_vars(NextCLI)


(***************************************************************************)
(* Properties of the interactive loop (SpecCLI, FairSpecCLI).              *)
(***************************************************************************)
InLoop == cli.pc \in {"prompt", "read"}

ConnectionOpen == handles # <<>> /\ ~handles[Len(handles)].closed

\* One pass of the loop body over a complete line of input.
LoopStepOnLine ==
    cli.pc = "read" /\ cli.stdin # <<>> /\ EndsLine(Head(cli.stdin)) =>
        LET input == String(TrimSpace(Head(cli.stdin)))
        IN  IF input \in QuitWords
            THEN cli'.pc = "done"
            ELSE /\ last'.op = "GetTableStructure"
                 /\ last'.schema = cli.schema
                 /\ last'.tableName = input
                 /\ last'.res.err # "" => cli'.out = Out("error", last'.res.err)
                 /\ cli'.pc = "prompt"
                 /\ handles' = handles

\* C13: a line whose trimmed text is q, exit or quit ends the loop; every
\* other line is passed as a table name to GetTableStructure; a failure of
\* GetTableStructure is reported and the loop goes on to the next prompt;
\* the connection stays open for as long as the loop runs.
C13_InteractiveLoop ==
    /\ [](InLoop => ConnectionOpen)
    /\ [][LoopStepOnLine]_vars

\* After a describe failure the program has printed the next prompt and
\* waits for a line, with the connection open.
C13_Witness ==
    /\ cli.pc = "read"
    /\ cli.out.kind = "prompt"
    /\ last.op = "GetTableStructure"
    /\ last.res.err # ""
    /\ ConnectionOpen

\* C17: for every finite input the loop ends: when standard input ends
\* before a closing word is read, the program eventually stops prompting and
\* terminates.
C17_LoopTerminates == <>(cli.pc \in {"done", "fatal"})


(***************************************************************************)
(* GetTableStructure query by query, with another session changing the     *)
(* catalog between its queries.  The three queries run as separate         *)
(* statements on the handle, outside any transaction.                      *)
(***************************************************************************)
\* The call ends with the result res.
Finish(res) == [race EXCEPT !.pc = "done", !.res = res]

\* The existence probe (QueryRow and Scan).
Probe(schema, tableName) ==
    /\ race.pc = "idle"
    /\ schema \in Schemas
    /\ tableName \in TableNames
    /\ LET call == [race EXCEPT !.schema = schema, !.tableName = tableName,
                                !.seen = {catalog}]
       IN  \/ race' = [call EXCEPT !.pc = "done",
                          !.res = Return(Result(Msg("connector", "exists") \o DriverErr,
                                                <<>>, {}, <<"exists">>,
                                                {Fault("query", "exists", 0)}), NoFrame)]
           \/ race' = IF ~TableExistsQuery(catalog, schema, tableName)
                      THEN [call EXCEPT !.pc = "done",
                               !.res = Return(Result(NotFoundMsg("connector", schema,
                                                                 tableName),
                                                     <<>>, {}, <<"exists">>, {}), NoFrame)]
                      ELSE [call EXCEPT !.pc = "columns"]
    /\ UNCHANGED <<connVars, fmtVars, foldVars, cliVars>>

\* The column query and its row loop.
Columns ==
    /\ race.pc = "columns"
    /\ LET issued == <<"exists", "columns">>
           rowsOpen == DeferClose(QueryRows(NoFrame, "columns"), "columns")
       IN  \/ race' = Finish(Return(Result(Msg("connector", "columns") \o DriverErr,
                                           <<>>, {}, issued,
                                           {Fault("query", "columns", 0)}), NoFrame))
           \/ \E rows \in ColumnQuery(catalog, race.schema, race.tableName) :
                 \E o \in LoopOutcomes(rows, "columns") :
                    race' = IF o.failed
                            THEN Finish(Return(Result(Msg("connector", "colscan")
                                                          \o DriverErr,
                                                      <<>>, {}, issued, o.faults),
                                               rowsOpen))
                            ELSE [race EXCEPT !.pc = "indexes",
                                     !.columns = ScanColumns("connector", o.rows),
                                     !.res = InFlight(Result("", <<>>, {}, issued,
                                                            o.faults),
                                                     rowsOpen)]
    /\ UNCHANGED <<connVars, fmtVars, foldVars, cliVars>>

\* The index query, its row loop, and the return of the table.
Indexes ==
    /\ race.pc = "indexes"
    /\ \E res \in IndexPhase("connector", catalog, race.schema, race.tableName,
                             race.columns, race.res.faults,
                             FrameOf(race.res)) :
          race' = Finish(res)
    /\ UNCHANGED <<connVars, fmtVars, foldVars, cliVars>>

\* The catalog states the call in flight has run against.
Seen(cat) == IF race.pc \in {"columns", "indexes"} THEN race.seen \cup {cat}
             ELSE race.seen

\* Another session: DROP TABLE / DROP VIEW of a relation no other table's
\* foreign key refers to; its indexes, columns and constraints go with it.
DropTable(oid) ==
    /\ race.pc # "done"
    /\ \E c \in catalog.class : c.oid = oid /\ c.relkind \in {"r", "v"}
    /\ \A k \in catalog.constraint : k.confrelid = oid => k.conrelid = oid
    /\ catalog' =
          [catalog EXCEPT
             !.class = {c \in @ : /\ c.oid # oid
                                  /\ ~\E ix \in catalog.index :
                                        ix.indexrelid = c.oid /\ ix.indrelid = oid},
             !.attribute = {a \in @ : a.attrelid # oid},
             !.attrdef = {d \in @ : d.adrelid # oid},
             !.constraint = {k \in @ : k.conrelid # oid},
             !.index = {ix \in @ : ix.indrelid # oid}]
    /\ race' = [race EXCEPT !.seen = Seen(catalog')]
    /\ UNCHANGED <<db, handles, last, fmtVars, foldVars, cliVars>>

\* Another session: DROP INDEX of an index that backs no constraint.
DropIndex(oid) ==
    /\ race.pc # "done"
    /\ \E ix \in catalog.index : ix.indexrelid = oid /\ ~ix.indisprimary
    /\ catalog' = [catalog EXCEPT !.class = {c \in @ : c.oid # oid},
                                  !.index = {ix \in @ : ix.indexrelid # oid}]
    /\ race' = [race EXCEPT !.seen = Seen(catalog')]
    /\ UNCHANGED <<db, handles, last, fmtVars, foldVars, cliVars>>

RaceCatalogs == {CatalogOf({10}), CatalogOf({10, 11}), CatalogOf({12, 14})}

RelationOids == TableOids
IndexOids == {ix.indexrelid : ix \in AllIndexes}

InitRace ==
    /\ db = 1
    /\ handles = <<Handle(TRUE, FALSE)>>
    /\ catalog \in RaceCatalogs
    /\ last = Call("Connect", "", "", NoResult)
    /\ FmtIdle
    /\ FoldIdle
    /\ CliIdle
    /\ race = [pc |-> "idle", schema |-> "", tableName |-> "", seen |-> {},
               columns |-> <<>>, res |-> NoResult]

NextRace ==
    \/ \E schema \in Schemas, tableName \in TableNames : Probe(schema, tableName)
    \/ Columns
    \/ Indexes
    \/ \E oid \in RelationOids : DropTable(oid)
    \/ \E oid \in IndexOids : DropIndex(oid)

SpecRace == InitRace /\ [][NextRace]_vars

(***************************************************************************)
(* Properties of a describe under concurrent catalog changes (SpecRace).   *)
(***************************************************************************)
\* The tables a GetTableStructure returns without a driver failure in the
\* catalog state cat.
TablesIn(cat, schema, tableName) ==
    {r.table : r \in {x \in TableStructureResults("connector", cat, schema, tableName) :
                         x.err = "" /\ x.faults = {}}}

\* C16: a GetTableStructure that meets no driver failure while the catalog
\* changes between its queries either fails or returns a table whose columns
\* and indexes are those of one catalog state of the call in which the table
\* existed; it does not return an empty column list for a table dropped
\* after the existence probe.
C16_OneCatalogState ==
    race.pc = "done" /\ race.res.err = "" /\ race.res.faults = {} =>
        \E cat \in race.seen :
            race.res.table \in TablesIn(cat, race.schema, race.tableName)

====
